---- MODULE Spec2Model ----
(***************************************************************************)
(* Narrative continuity state machine of novel-dev: the project files     *)
(* written by ContextManager (story_context.json, writing_sessions.json), *)
(* the transient temp_project_state.json, and the NovelWriter operations  *)
(* that drive WritingEngine, StoryCritic and OutlineCreator over them.    *)
(***************************************************************************)
EXTENDS Integers, Sequences, FiniteSets, TLC

VARIABLES ctxFile, sessFile, tempFile, last, writer

vars == <<ctxFile, sessFile, tempFile, last, writer>>

(***************************************************************************)
(* Bounds                                                                  *)
(***************************************************************************)
\* largest number of chapters an outline returned by the generator has
MaxChapters == 2
\* largest number of records the session log is allowed to grow to
MaxSessions == 2
\* largest window asked of get_recent_content
MaxWindow == 3

(***************************************************************************)
(* Data: texts the generator returns, characters, chapters, outlines       *)
(***************************************************************************)
\* A string is a sequence of runs: n >= 1 repetitions of one character, no
\* two neighbouring runs of the same character.  The empty string is <<>>.
Run(ch, n) == [ch |-> ch, n |-> n]

\* Chapter prose.  The generator's answers are arbitrary strings; each answer
\* to a writing prompt is modelled as a text of its own: "draft n" is the
\* answer whose session is the n-th record of the log (n repetitions of the
\* character "draft"), "revised n" the answer to a revision prompt for that
\* draft.
Text(kind, n) == << Run(kind, n) >>
Draft(n) == Text("draft", n)
Revised(t) == Text("revised", t[1].n)
EmptyText == <<>>
\* no text (a result that carries no content)
NoText == Text("none", 0)

\* python a + b on strings
Concat(a, b) ==
  IF a = <<>> THEN b
  ELSE IF b = <<>> THEN a
  ELSE IF a[Len(a)].ch = b[1].ch
       THEN SubSeq(a, 1, Len(a) - 1)
              \o << Run(b[1].ch, a[Len(a)].n + b[1].n) >> \o Tail(b)
       ELSE a \o b

\* python len(s)
RECURSIVE TextLen(_)
TextLen(t) == IF t = <<>> THEN 0 ELSE t[1].n + TextLen(Tail(t))

\* python s[:k] for k >= 0
RECURSIVE SliceTo(_, _)
SliceTo(t, k) ==
  IF t = <<>> \/ k <= 0 THEN <<>>
  ELSE IF t[1].n <= k THEN << t[1] >> \o SliceTo(Tail(t), k - t[1].n)
       ELSE << Run(t[1].ch, k) >>

\* python s[k:] for k >= 0
RECURSIVE SliceFrom(_, _)
SliceFrom(t, k) ==
  IF t = <<>> THEN <<>>
  ELSE IF k <= 0 THEN t
  ELSE IF t[1].n <= k THEN SliceFrom(Tail(t), k - t[1].n)
       ELSE << Run(t[1].ch, t[1].n - k) >> \o Tail(t)

\* the separator "\n\n"
BlankLine == << Run("\n", 2) >>

\* python sep.join(texts)
RECURSIVE Join(_, _)
Join(sep, texts) ==
  IF texts = <<>> THEN <<>>
  ELSE IF Len(texts) = 1 THEN texts[1]
  ELSE Concat(Concat(texts[1], sep), Join(sep, Tail(texts)))

\* arc summaries returned for an arc prompt
ArcSummary(n) == Text("arc", n)
ArcTexts == { ArcSummary(1), ArcSummary(2) }

\* chapter prose returned by LLMInterface.generate for a writing prompt
Drafts == { Draft(n) : n \in 1..MaxSessions }
\* chapter prose returned for a revision prompt
Revisions == { Revised(d) : d \in Drafts }
\* python None and its JSON rendering
None == "None"
JsonNull == "null"

MainCharacters == << [name |-> "Ana", role |-> "protagonist"],
                     [name |-> "Bo", role |-> "antagonist"] >>

Chapter(title, involved, words) ==
  [title |-> title, characters_involved |-> involved,
   word_count_target |-> words, content |-> None]

\* chapters the generator plans ("Zed" is not a main character; "Bo" is a
\* main character that no chapter involves)
Arrival == Chapter("Arrival", <<"Ana">>, 1001)
Storm == Chapter("Storm", <<"Zed", "Ana">>, 0)
Return == Chapter("Return", <<>>, 2000)

\* chapter i of the two chapter orders the generator produces
BookA(i) == CASE i % 3 = 1 -> Arrival [] i % 3 = 2 -> Storm [] OTHER -> Return
BookB(i) == CASE i % 3 = 1 -> Storm [] i % 3 = 2 -> Return [] OTHER -> Arrival

StoryOutline(chapters) ==
  [title |-> "Novel", main_characters |-> MainCharacters, chapters |-> chapters]

\* the outlines OutlineCreator can return: 0..MaxChapters chapters in the
\* first order, or MaxChapters chapters in the second
Outlines ==
  { StoryOutline([i \in 1..n |-> BookA(i)]) : n \in 0..MaxChapters } \cup
  { StoryOutline([i \in 1..MaxChapters |-> BookB(i)]) }

EmptyOutline == StoryOutline(<<>>)

(***************************************************************************)
(* Dictionaries (python dict with string keys): a function on its key set  *)
(***************************************************************************)
EmptyDict == [k \in {} |-> None]

DictSet(d, k, v) == [x \in (DOMAIN d) \cup {k} |-> IF x = k THEN v ELSE d[x]]

DictGet(d, k, default) == IF k \in DOMAIN d THEN d[k] ELSE default

\* a plot thread status: the text and, for f"Updated after Chapter {n}", n
Status(text, n) == [text |-> text, chapter |-> n]

DefaultPlotThreads ==
  [k \in {"main_plot", "character_development"} |->
     IF k = "main_plot" THEN Status("Beginning", 0)
                        ELSE Status("Initial setup", 0)]

(***************************************************************************)
(* StoryContext and its serialization                                      *)
(***************************************************************************)
StoryContext(outline, completed, cur, arcs, threads, notes, style) ==
  [outline |-> outline, completed_chapters |-> completed,
   current_chapter |-> cur, character_arcs |-> arcs, plot_threads |-> threads,
   world_building_notes |-> notes, style_notes |-> style]

\* leaves plot_threads at its field default
NewStoryContext_nothreads(outline, threads) ==
  StoryContext(outline, <<>>, 0, EmptyDict, EmptyDict, EmptyDict, "")

\* StoryContext(outline=..., plot_threads=...) with the field defaults
NewStoryContext(outline, threads) ==
  StoryContext(outline, <<>>, 0, EmptyDict, threads, EmptyDict, "")

NoContext == NewStoryContext(EmptyOutline, EmptyDict)

\* model_dump + json.dump: objects are rendered with every field, None as null
DumpChapter(ch) ==
  [title |-> ch.title, characters_involved |-> ch.characters_involved,
   word_count_target |-> ch.word_count_target,
   content |-> IF ch.content = None THEN JsonNull ELSE ch.content]

DumpOutline(o) ==
  [title |-> o.title, main_characters |-> o.main_characters,
   chapters |-> [i \in 1..Len(o.chapters) |-> DumpChapter(o.chapters[i])]]

model_dump(c) ==
  [outline |-> DumpOutline(c.outline),
   completed_chapters |-> c.completed_chapters,
   current_chapter |-> c.current_chapter,
   character_arcs |-> c.character_arcs,
   plot_threads |-> c.plot_threads,
   world_building_notes |-> c.world_building_notes,
   style_notes |-> c.style_notes]

\* json.load + StoryContext(**data)
ParseChapter(j) ==
  [title |-> j.title, characters_involved |-> j.characters_involved,
   word_count_target |-> j.word_count_target,
   content |-> IF j.content = JsonNull THEN None ELSE j.content]

ParseOutline(j) ==
  [title |-> j.title, main_characters |-> j.main_characters,
   chapters |-> [i \in 1..Len(j.chapters) |-> ParseChapter(j.chapters[i])]]

\* loses the style notes (the field default is kept)
ParseContext_nostyle(j) ==
  StoryContext(ParseOutline(j.outline), j.completed_chapters,
               j.current_chapter, j.character_arcs, j.plot_threads,
               j.world_building_notes, "")

ParseContext(j) ==
  StoryContext(ParseOutline(j.outline), j.completed_chapters,
               j.current_chapter, j.character_arcs, j.plot_threads,
               j.world_building_notes, j.style_notes)

(***************************************************************************)
(* ContextManager: the two project files                                   *)
(* a file is absent, ok (holds a complete JSON document) or corrupt (was   *)
(* opened for writing and not completely written)                          *)
(***************************************************************************)
AbsentContextFile == [status |-> "absent", doc |-> model_dump(NoContext)]
CorruptContextFile == [status |-> "corrupt", doc |-> model_dump(NoContext)]

\* open(context_file, 'w') truncates the file; json.dump then writes the
\* document.  interrupted: the process stops between the two.
save_context(context, interrupted) ==
  IF interrupted THEN CorruptContextFile
  ELSE [status |-> "ok", doc |-> model_dump(context)]

\* returns an empty context instead of None when the file does not exist
load_context_default(file) ==
  CASE file.status = "absent" -> [kind |-> "ctx", ctx |-> NoContext]
    [] file.status = "corrupt" -> [kind |-> "error", ctx |-> NoContext]
    [] OTHER -> [kind |-> "ctx", ctx |-> ParseContext(file.doc)]

\* kind "none": returns None;  "ctx": returns the context;
\* "error": json.load raises JSONDecodeError
load_context(file) ==
  CASE file.status = "absent" -> [kind |-> "none", ctx |-> NoContext]
    [] file.status = "corrupt" -> [kind |-> "error", ctx |-> NoContext]
    [] OTHER -> [kind |-> "ctx", ctx |-> ParseContext(file.doc)]

\* records the 1-based chapter number
WritingSession_number(index, content) ==
  [chapter_index |-> index + 1, content_written |-> content,
   critique_notes |-> JsonNull]

WritingSession(index, content) ==
  [chapter_index |-> index, content_written |-> content,
   critique_notes |-> JsonNull]

AbsentSessionsFile == [status |-> "absent", log |-> <<>>]

load_sessions(file) ==
  CASE file.status = "corrupt" -> [kind |-> "error", sessions |-> <<>>]
    [] OTHER -> [kind |-> "ok", sessions |-> file.log]

\* rewrites the file with the new record only
save_session_overwrite(file, session, interrupted) ==
  IF interrupted THEN [status |-> "corrupt", log |-> <<>>]
  ELSE [status |-> "ok", log |-> <<session>>]

\* load_sessions, append, rewrite the whole file
save_session(file, session, interrupted) ==
  IF interrupted THEN [status |-> "corrupt", log |-> <<>>]
  ELSE [status |-> "ok", log |-> Append(load_sessions(file).sessions, session)]

(***************************************************************************)
(* Text as character sequences, for the thread-name match of               *)
(* WritingEngine._update_plot_threads                                      *)
(***************************************************************************)
UpperLetters == <<"A", "B", "C", "D", "E", "F", "G", "H", "I", "J", "K", "L", "M", "N", "O", "P", "Q", "R", "S", "T", "U", "V", "W", "X", "Y", "Z">>
LowerLetters == <<"a", "b", "c", "d", "e", "f", "g", "h", "i", "j", "k", "l", "m", "n", "o", "p", "q", "r", "s", "t", "u", "v", "w", "x", "y", "z">>

\* str.lower() on one character
LowerChar(c) ==
  IF \E i \in 1..Len(UpperLetters) : UpperLetters[i] = c
  THEN LowerLetters[CHOOSE i \in 1..Len(UpperLetters) : UpperLetters[i] = c]
  ELSE c

\* str.lower()
lower(s) == [i \in 1..Len(s) |-> LowerChar(s[i])]

\* python "a in b" on strings
IsSubstring(a, b) ==
  \E off \in 0..(Len(b) - Len(a)) : \A i \in 1..Len(a) : b[off + i] = a[i]

\* the characters of a plot thread name
NameChars(k) ==
  CASE k = "main_plot" -> <<"m", "a", "i", "n", "_", "p", "l", "o", "t">>
    [] k = "character_development" -> <<"c", "h", "a", "r", "a", "c", "t", "e", "r", "_", "d", "e", "v", "e", "l", "o", "p", "m", "e", "n", "t">>
    [] OTHER -> <<>>

\* free-text answers of the generator to the plot-thread prompt
ThreadResponses ==
  { <<"M", "A", "I", "N", "_", "P", "L", "O", "T", " ", "u", "p">>,
    <<"p", "l", "o", "t">> }

\* thread_name.lower() in updates.lower(), for every response and the names
\* of the default threads
ThreadMatch ==
  [updates \in ThreadResponses |->
     { k \in DOMAIN DefaultPlotThreads :
         IsSubstring(lower(NameChars(k)), lower(updates)) }]

(***************************************************************************)
(* Generation calls.  An operation issues its calls in order; `fail` is    *)
(* the position (1-based, within the operation) of the call on which       *)
(* LLMInterface raises, 0 when every call returns.  `calls` lists the      *)
(* calls issued so far, the failing one included.                          *)
(***************************************************************************)
Fails(calls, fail) == Len(calls) + 1 = fail

MainNames(context) ==
  { context.outline.main_characters[i].name :
      i \in 1..Len(context.outline.main_characters) }

(***************************************************************************)
(* WritingEngine                                                           *)
(***************************************************************************)
\* asks for an arc summary of every involved character, main or not
RECURSIVE ArcLoop_all(_, _, _, _, _, _)
ArcLoop_all(i, involved, context, arcResp, calls, fail) ==
  IF i > Len(involved)
  THEN [failed |-> FALSE, ctx |-> context, calls |-> calls]
  ELSE IF Fails(calls, fail)
       THEN [failed |-> TRUE, ctx |-> context, calls |-> Append(calls, "arc")]
       ELSE ArcLoop_all(i + 1, involved,
                        [context EXCEPT !.character_arcs =
                           DictSet(@, involved[i], arcResp[involved[i]])],
                        arcResp, Append(calls, "arc"), fail)

\* the loop of _update_character_arcs from position i of characters_involved;
\* arcResp[name] is the generator's summary for that character
RECURSIVE ArcLoop(_, _, _, _, _, _)
ArcLoop(i, involved, context, arcResp, calls, fail) ==
  IF i > Len(involved)
  THEN [failed |-> FALSE, ctx |-> context, calls |-> calls]
  ELSE IF involved[i] \in MainNames(context)
       THEN IF Fails(calls, fail)
            THEN [failed |-> TRUE, ctx |-> context,
                  calls |-> Append(calls, "arc")]
            ELSE ArcLoop(i + 1, involved,
                         [context EXCEPT !.character_arcs =
                            DictSet(@, involved[i], arcResp[involved[i]])],
                         arcResp, Append(calls, "arc"), fail)
       ELSE ArcLoop(i + 1, involved, context, arcResp, calls, fail)

\* requires chapter_index < len(outline.chapters)
update_character_arcs(chapter_index, context, arcResp, calls, fail) ==
  ArcLoop(1, context.outline.chapters[chapter_index + 1].characters_involved,
          context, arcResp, calls, fail)

\* marks every thread as updated, named in the answer or not
update_plot_threads_every(chapter_index, context, updates, calls, fail) ==
  IF DOMAIN context.plot_threads = {}
  THEN [failed |-> FALSE, ctx |-> context, calls |-> calls]
  ELSE IF Fails(calls, fail)
       THEN [failed |-> TRUE, ctx |-> context,
             calls |-> Append(calls, "threads")]
       ELSE [failed |-> FALSE,
             ctx |-> [context EXCEPT !.plot_threads =
                        [k \in DOMAIN @ |->
                           Status("Updated after Chapter", chapter_index + 1)]],
             calls |-> Append(calls, "threads")]

\* _update_plot_threads: one call when there are threads; a thread whose
\* lowered name is in the lowered answer gets f"Updated after Chapter {n}"
update_plot_threads(chapter_index, context, updates, calls, fail) ==
  IF DOMAIN context.plot_threads = {}
  THEN [failed |-> FALSE, ctx |-> context, calls |-> calls]
  ELSE IF Fails(calls, fail)
       THEN [failed |-> TRUE, ctx |-> context,
             calls |-> Append(calls, "threads")]
       ELSE [failed |-> FALSE,
             ctx |-> [context EXCEPT !.plot_threads =
                        [k \in DOMAIN @ |->
                           IF k \in ThreadMatch[updates]
                           THEN Status("Updated after Chapter",
                                       chapter_index + 1)
                           ELSE @[k]]],
             calls |-> Append(calls, "threads")]

\* moves the cursor two chapters on
CommitChapter_skip(chapter_index, content, context) ==
  [context EXCEPT !.completed_chapters = Append(@, content),
                  !.current_chapter = chapter_index + 2]

\* appends the chapter and leaves the cursor on it
CommitChapter_stay(chapter_index, content, context) ==
  [context EXCEPT !.completed_chapters = Append(@, content),
                  !.current_chapter = chapter_index]

\* the two assignments at the head of finalize_chapter
CommitChapter(chapter_index, content, context) ==
  [context EXCEPT !.completed_chapters = Append(@, content),
                  !.current_chapter = chapter_index + 1]

\* saves the context right after the commit, before the refresh calls
WritingEngine_finalize_chapter_early(chapter_index, content, context, file, arcResp, updates, calls, fail, interrupted) ==
  LET c1 == CommitChapter(chapter_index, content, context)
      early == save_context(c1, FALSE)
  IN IF chapter_index >= Len(c1.outline.chapters)
     THEN [outcome |-> "IndexError", mem |-> c1, file |-> early,
           calls |-> calls]
     ELSE
       LET a == update_character_arcs(chapter_index, c1, arcResp, calls, fail)
       IN IF a.failed
          THEN [outcome |-> "generation failed", mem |-> a.ctx,
                file |-> early, calls |-> a.calls]
          ELSE
            LET t == update_plot_threads(chapter_index, a.ctx, updates,
                                         a.calls, fail)
            IN IF t.failed
               THEN [outcome |-> "generation failed", mem |-> t.ctx,
                     file |-> early, calls |-> t.calls]
               ELSE [outcome |-> IF interrupted THEN "interrupted" ELSE "ok",
                     mem |-> t.ctx,
                     file |-> save_context(t.ctx, interrupted),
                     calls |-> t.calls]

\* WritingEngine.finalize_chapter(chapter_index, content, context) run on the
\* context file `file`: the outcome, the caller's context object afterwards
\* (mem), the context file afterwards and the calls issued
WritingEngine_finalize_chapter(chapter_index, content, context, file, arcResp, updates, calls, fail, interrupted) ==
  LET c1 == CommitChapter(chapter_index, content, context)
  IN IF chapter_index >= Len(c1.outline.chapters)
     THEN [outcome |-> "IndexError", mem |-> c1, file |-> file,
           calls |-> calls]
     ELSE
       LET a == update_character_arcs(chapter_index, c1, arcResp, calls, fail)
       IN IF a.failed
          THEN [outcome |-> "generation failed", mem |-> a.ctx,
                file |-> file, calls |-> a.calls]
          ELSE
            LET t == update_plot_threads(chapter_index, a.ctx, updates,
                                         a.calls, fail)
            IN IF t.failed
               THEN [outcome |-> "generation failed", mem |-> t.ctx,
                     file |-> file, calls |-> t.calls]
               ELSE [outcome |-> IF interrupted THEN "interrupted" ELSE "ok",
                     mem |-> t.ctx,
                     file |-> save_context(t.ctx, interrupted),
                     calls |-> t.calls]

\* python int(w * 1.5): the product, truncated towards zero
max_tokens(word_count_target) ==
  IF word_count_target >= 0 THEN (3 * word_count_target) \div 2
  ELSE -((3 * (-word_count_target)) \div 2)

\* the option LLMInterface.generate sends: "max_tokens or -1", where -1
\* asks the server for an unbounded answer
Unbounded == -1
num_predict(tokens) == IF tokens = 0 THEN Unbounded ELSE tokens

\* no generation request was sent
NoRequest == 0

\* the range test at the head of write_chapter
IndexOutOfRange(chapter_index, context) ==
  chapter_index >= Len(context.outline.chapters)

\* raises only after the generation call was issued
RejectedWrite_late(sfile, calls) ==
  [outcome |-> "ValueError", sfile |-> sfile, calls |-> Append(calls, "write"),
   content |-> NoText, num_predict |-> NoRequest]

\* the ValueError raised before anything else is done
RejectedWrite(sfile, calls) ==
  [outcome |-> "ValueError", sfile |-> sfile, calls |-> calls,
   content |-> NoText, num_predict |-> NoRequest]

\* WritingEngine.write_chapter(chapter_index, context): the outcome, the
\* session file afterwards and the calls issued
WritingEngine_write_chapter(chapter_index, context, sfile, draft, calls, fail, interrupted) ==
  IF IndexOutOfRange(chapter_index, context)
  THEN RejectedWrite(sfile, calls)
  ELSE LET chapter == context.outline.chapters[chapter_index + 1]
           limit == num_predict(max_tokens(chapter.word_count_target))
       IN IF Fails(calls, fail)
          THEN [outcome |-> "generation failed", sfile |-> sfile,
                calls |-> Append(calls, "write"), content |-> NoText,
                num_predict |-> limit]
          ELSE IF load_sessions(sfile).kind = "error"
               THEN [outcome |-> "JSONDecodeError", sfile |-> sfile,
                     calls |-> Append(calls, "write"), content |-> NoText,
                     num_predict |-> limit]
               ELSE [outcome |-> IF interrupted THEN "interrupted" ELSE "ok",
                     sfile |-> save_session(sfile,
                                 WritingSession(chapter_index, draft),
                                 interrupted),
                     calls |-> Append(calls, "write"), content |-> draft,
                     num_predict |-> limit]

\* returns the continuation alone
WritingEngine_continue_chapter_alone(chapter_index, existing_content, context, continuation, calls, fail) ==
  IF chapter_index >= Len(context.outline.chapters)
  THEN [outcome |-> "IndexError", calls |-> calls, content |-> NoText]
  ELSE IF Fails(calls, fail)
       THEN [outcome |-> "generation failed",
             calls |-> Append(calls, "continue"), content |-> NoText]
       ELSE [outcome |-> "ok", calls |-> Append(calls, "continue"),
             content |-> continuation]

\* WritingEngine.continue_chapter(chapter_index, existing_content, context),
\* `continuation` being the generator's answer
WritingEngine_continue_chapter(chapter_index, existing_content, context, continuation, calls, fail) ==
  IF chapter_index >= Len(context.outline.chapters)
  THEN [outcome |-> "IndexError", calls |-> calls, content |-> NoText]
  ELSE IF Fails(calls, fail)
       THEN [outcome |-> "generation failed",
             calls |-> Append(calls, "continue"), content |-> NoText]
       ELSE [outcome |-> "ok", calls |-> Append(calls, "continue"),
             content |-> Concat(Concat(existing_content, BlankLine),
                                continuation)]

(***************************************************************************)
(* ContextManager views and StoryCritic                                    *)
(***************************************************************************)
Max(a, b) == IF a >= b THEN a ELSE b
Min(a, b) == IF a <= b THEN a ELSE b

\* python list slice l[a:b] for 0 <= a
Slice(l, a, b) ==
  LET hi == Min(b, Len(l))
  IN IF a >= hi THEN <<>> ELSE [i \in 1..(hi - a) |-> l[a + i]]

\* returns every chapter before the cursor, whatever the window
get_recent_content_all(file, num_chapters) ==
  LET lc == load_context(file)
  IN IF lc.kind # "ctx" THEN EmptyText
     ELSE Join(BlankLine,
               Slice(lc.ctx.completed_chapters, 0, lc.ctx.current_chapter))

\* get_recent_content(num_chapters) on the context file ("" when there is no
\* context)
get_recent_content(file, num_chapters) ==
  LET lc == load_context(file)
  IN IF lc.kind # "ctx" THEN EmptyText
     ELSE Join(BlankLine,
               Slice(lc.ctx.completed_chapters,
                     Max(0, lc.ctx.current_chapter - num_chapters),
                     lc.ctx.current_chapter))

\* the number of characters of recent content _build_writing_prompt keeps
ExcerptChars == 2000

\* the continuity excerpt of _build_writing_prompt: recent_content[:2000] of
\* get_recent_content(2); no excerpt when the recent content is empty
recent_excerpt(file) ==
  LET recent_content == get_recent_content(file, 2)
  IN IF recent_content = EmptyText THEN NoText
     ELSE SliceTo(recent_content, ExcerptChars)

\* StoryCritic.critique_chapter(content, chapter_index, context)
critique_chapter(chapter_index, context, calls, fail) ==
  IF chapter_index >= Len(context.outline.chapters)
  THEN [outcome |-> "IndexError", calls |-> calls]
  ELSE IF Fails(calls, fail)
       THEN [outcome |-> "generation failed",
             calls |-> Append(calls, "critique")]
       ELSE [outcome |-> "ok", calls |-> Append(calls, "critique")]

\* StoryCritic.check_continuity(context) with the default window of 5
check_continuity(file, calls, fail) ==
  IF get_recent_content(file, 5) = EmptyText
  THEN [outcome |-> "ok", calls |-> calls]
  ELSE IF Fails(calls, fail)
       THEN [outcome |-> "generation failed",
             calls |-> Append(calls, "continuity")]
       ELSE [outcome |-> "ok", calls |-> Append(calls, "continuity")]

\* StoryCritic.critique_full_story(context)
critique_full_story(calls, fail) ==
  IF Fails(calls, fail)
  THEN [outcome |-> "generation failed",
        calls |-> Append(calls, "full critique")]
  ELSE [outcome |-> "ok", calls |-> Append(calls, "full critique")]

\* the loop of ContextManager.export_manuscript: every completed chapter
\* needs outline.chapters[i]
export_manuscript(context) ==
  IF Len(context.completed_chapters) > Len(context.outline.chapters)
  THEN "IndexError" ELSE "ok"

(***************************************************************************)
(* The observable result of the last operation                             *)
(***************************************************************************)
NoIndex == -1

Result(op, outcome, calls, index, content, mem, approved) ==
  [op |-> op, outcome |-> outcome, calls |-> calls, chapter_index |-> index,
   content |-> content, mem |-> mem, approved |-> approved,
   num_predict |-> NoRequest]

\* the result of an operation that sent a writing request with this limit
WithRequest(result, limit) == [result EXCEPT !.num_predict = limit]

Plain(op, outcome, calls) ==
  Result(op, outcome, calls, NoIndex, NoText, NoContext, FALSE)

\* positions at which a generation call of one operation can fail (0: none);
\* finalize issues at most a revision, one arc call per involved character
\* and a thread call
FailPoints == 0..3
\* the same for a finalize without a revision call (no chapter involves more
\* than one main character)
RefreshFailPoints == 0..2

\* NovelWriter.__init__ and ContextManager.__init__: the attributes of an
\* instance constructed over the project directory
NovelWriter_init ==
  [project_name |-> "novel", project_path |-> "./projects/novel",
   context_file |-> "./projects/novel/story_context.json",
   sessions_file |-> "./projects/novel/writing_sessions.json"]

Init ==
  /\ writer = NovelWriter_init
  /\ ctxFile = AbsentContextFile
  /\ sessFile = AbsentSessionsFile
  /\ tempFile = "absent"
  /\ last = Plain("init", "ok", <<>>)

(***************************************************************************)
(* NovelWriter operations                                                  *)
(***************************************************************************)
\* starts over: removes the context file of an earlier project
NovelWriter_start_new_project_reset(available, fail, interrupted) ==
  /\ UNCHANGED <<sessFile, writer>>
  /\ IF ~available
     THEN /\ last' = Plain("start_new_project", "LLM not available", <<>>)
          /\ UNCHANGED <<ctxFile, tempFile>>
     ELSE IF fail = 1
          THEN /\ last' = Plain("start_new_project", "generation failed",
                                <<"analysis">>)
               /\ UNCHANGED <<ctxFile, tempFile>>
          ELSE /\ tempFile' = IF interrupted THEN "corrupt" ELSE "ok"
               /\ ctxFile' = AbsentContextFile
               /\ last' = Plain("start_new_project",
                                IF interrupted THEN "interrupted" ELSE "ok",
                                <<"analysis">>)

NovelWriter_start_new_project(available, fail, interrupted) ==
  /\ UNCHANGED <<ctxFile, sessFile, writer>>
  /\ IF ~available
     THEN /\ last' = Plain("start_new_project", "LLM not available", <<>>)
          /\ UNCHANGED tempFile
     ELSE IF fail = 1
          THEN /\ last' = Plain("start_new_project", "generation failed",
                                <<"analysis">>)
               /\ UNCHANGED tempFile
          ELSE /\ tempFile' = IF interrupted THEN "corrupt" ELSE "ok"
               /\ last' = Plain("start_new_project",
                                IF interrupted THEN "interrupted" ELSE "ok",
                                <<"analysis">>)

\* never takes the "already has an outline" branch
HasOutline_never(lc) == FALSE

\* the else branch of "if not context" in answer_questions
HasOutline(lc) == lc.kind = "ctx"

\* removes the transient file before the outline is generated
NovelWriter_answer_questions_cleanup(outline, fail, interrupted) ==
  LET lc == load_context(ctxFile)
      op == "answer_questions"
  IN /\ UNCHANGED <<sessFile, writer>>
     /\ CASE lc.kind = "error" ->
               /\ last' = Plain(op, "JSONDecodeError", <<>>)
               /\ UNCHANGED <<ctxFile, tempFile>>
          [] HasOutline(lc) ->
               /\ last' = Plain(op, "Project already has an outline", <<>>)
               /\ UNCHANGED <<ctxFile, tempFile>>
          [] lc.kind = "none" /\ tempFile = "absent" ->
               /\ last' = Plain(op, "No active project found", <<>>)
               /\ UNCHANGED <<ctxFile, tempFile>>
          [] lc.kind = "none" /\ tempFile = "corrupt" ->
               /\ last' = Plain(op, "JSONDecodeError", <<>>)
               /\ UNCHANGED <<ctxFile, tempFile>>
          [] OTHER ->
               IF fail = 1
               THEN /\ last' = Plain(op, "generation failed", <<"outline">>)
                    /\ tempFile' = "absent"
                    /\ UNCHANGED ctxFile
               ELSE /\ ctxFile' = save_context(
                          NewStoryContext(outline, DefaultPlotThreads),
                          interrupted)
                    /\ tempFile' = IF interrupted THEN tempFile ELSE "absent"
                    /\ last' = Plain(op,
                          IF interrupted THEN "interrupted" ELSE "ok",
                          <<"outline">>)

NovelWriter_answer_questions(outline, fail, interrupted) ==
  LET lc == load_context(ctxFile)
      op == "answer_questions"
  IN /\ UNCHANGED <<sessFile, writer>>
     /\ CASE lc.kind = "error" ->
               /\ last' = Plain(op, "JSONDecodeError", <<>>)
               /\ UNCHANGED <<ctxFile, tempFile>>
          [] HasOutline(lc) ->
               /\ last' = Plain(op, "Project already has an outline", <<>>)
               /\ UNCHANGED <<ctxFile, tempFile>>
          [] lc.kind = "none" /\ tempFile = "absent" ->
               /\ last' = Plain(op, "No active project found", <<>>)
               /\ UNCHANGED <<ctxFile, tempFile>>
          [] lc.kind = "none" /\ tempFile = "corrupt" ->
               /\ last' = Plain(op, "JSONDecodeError", <<>>)
               /\ UNCHANGED <<ctxFile, tempFile>>
          [] OTHER ->
               IF fail = 1
               THEN /\ last' = Plain(op, "generation failed", <<"outline">>)
                    /\ UNCHANGED <<ctxFile, tempFile>>
               ELSE /\ ctxFile' = save_context(
                          NewStoryContext(outline, DefaultPlotThreads),
                          interrupted)
                    /\ tempFile' = IF interrupted THEN tempFile ELSE "absent"
                    /\ last' = Plain(op,
                          IF interrupted THEN "interrupted" ELSE "ok",
                          <<"outline">>)

\* feedback arguments: omitted (None), empty, or some revision request
Feedbacks == { None, "", "tighter" }

\* rejects only an omitted feedback
NotFeedback_none(feedback) == feedback = None

\* python "not feedback" on an Optional[str]
NotFeedback(feedback) == feedback = None \/ feedback = ""

\* starts a new context around the revised outline
SetOutline_fresh(context, outline) ==
  NewStoryContext(outline, context.plot_threads)

\* a patch: keeps the old outline's chapters that are already written
SetOutline_patch(context, outline) ==
  [context EXCEPT !.outline =
     [outline EXCEPT !.chapters =
        [i \in 1..Len(outline.chapters) |->
           IF i <= Len(context.completed_chapters)
              /\ i <= Len(context.outline.chapters)
           THEN context.outline.chapters[i] ELSE outline.chapters[i]]]]

\* context.outline = revised_outline
SetOutline(context, outline) == [context EXCEPT !.outline = outline]

NovelWriter_approve_outline(approved, feedback, outline, fail, interrupted) ==
  LET lc == load_context(ctxFile)
      op == "approve_outline"
      R(outcome, calls) ==
        Result(op, outcome, calls, NoIndex, NoText, NoContext, approved)
  IN /\ UNCHANGED <<sessFile, tempFile, writer>>
     /\ CASE approved ->
               /\ last' = R("ok", <<>>)
               /\ UNCHANGED ctxFile
          [] ~approved /\ NotFeedback(feedback) ->
               /\ last' = R("ValueError", <<>>)
               /\ UNCHANGED ctxFile
          [] ~approved /\ ~NotFeedback(feedback) /\ lc.kind = "error" ->
               /\ last' = R("JSONDecodeError", <<>>)
               /\ UNCHANGED ctxFile
          [] ~approved /\ ~NotFeedback(feedback) /\ lc.kind = "none" ->
               /\ last' = R("No active project found", <<>>)
               /\ UNCHANGED ctxFile
          [] OTHER ->
               IF fail = 1
               THEN /\ last' = R("generation failed", <<"outline">>)
                    /\ UNCHANGED ctxFile
               ELSE /\ ctxFile' = save_context(SetOutline(lc.ctx, outline),
                                                interrupted)
                    /\ last' = R(IF interrupted THEN "interrupted" ELSE "ok",
                                 <<"outline">>)

\* off by one: the cursor has to pass the last chapter
StoryComplete_past(context) ==
  context.current_chapter > Len(context.outline.chapters)

\* the completion test of write_next_chapter
StoryComplete(context) ==
  context.current_chapter >= Len(context.outline.chapters)

\* logs the session only once the critique has returned
NovelWriter_write_next_chapter_log_after_critique(draft, fail, interrupted) ==
  LET lc == load_context(ctxFile)
      op == "write_next_chapter"
      cur == lc.ctx.current_chapter
      w == WritingEngine_write_chapter(cur, lc.ctx, sessFile, draft,
                                       <<>>, fail, interrupted)
      c == critique_chapter(cur, lc.ctx, w.calls, fail)
  IN /\ UNCHANGED <<ctxFile, tempFile, writer>>
     /\ CASE lc.kind = "error" ->
               /\ last' = Plain(op, "JSONDecodeError", <<>>)
               /\ UNCHANGED sessFile
          [] lc.kind = "none" ->
               /\ last' = Plain(op, "No active project found", <<>>)
               /\ UNCHANGED sessFile
          [] lc.kind = "ctx" /\ StoryComplete(lc.ctx) ->
               /\ last' = Plain(op, "completed", <<>>)
               /\ UNCHANGED sessFile
          [] OTHER ->
               /\ Len(sessFile.log) < MaxSessions
               /\ IF w.outcome # "ok"
                  THEN /\ last' = WithRequest(Plain(op, w.outcome, w.calls),
                                              w.num_predict)
                       /\ UNCHANGED sessFile
                  ELSE /\ last' = WithRequest(
                                    Result(op, c.outcome, c.calls, cur,
                                           IF c.outcome = "ok" THEN w.content
                                           ELSE NoText,
                                           NoContext, FALSE),
                                    w.num_predict)
                       /\ sessFile' = IF c.outcome = "ok" THEN w.sfile
                                                          ELSE sessFile

\* also notes in the context that a draft is pending, and saves it
NovelWriter_write_next_chapter_store(draft, fail, interrupted) ==
  LET lc == load_context(ctxFile)
      op == "write_next_chapter"
      cur == lc.ctx.current_chapter
      w == WritingEngine_write_chapter(cur, lc.ctx, sessFile, draft,
                                       <<>>, fail, interrupted)
      c == critique_chapter(cur, lc.ctx, w.calls, fail)
      stored == [lc.ctx EXCEPT !.style_notes = "drafting"]
  IN /\ UNCHANGED <<tempFile, writer>>
     /\ ctxFile' = IF lc.kind = "ctx" /\ ~StoryComplete(lc.ctx)
                                      /\ w.outcome = "ok"
                   THEN save_context(stored, FALSE) ELSE ctxFile
     /\ CASE lc.kind = "error" ->
               /\ last' = Plain(op, "JSONDecodeError", <<>>)
               /\ UNCHANGED sessFile
          [] lc.kind = "none" ->
               /\ last' = Plain(op, "No active project found", <<>>)
               /\ UNCHANGED sessFile
          [] lc.kind = "ctx" /\ StoryComplete(lc.ctx) ->
               /\ last' = Plain(op, "completed", <<>>)
               /\ UNCHANGED sessFile
          [] OTHER ->
               /\ Len(sessFile.log) < MaxSessions
               /\ sessFile' = w.sfile
               /\ IF w.outcome # "ok"
                  THEN last' = WithRequest(Plain(op, w.outcome, w.calls),
                                           w.num_predict)
                  ELSE last' = WithRequest(
                                 Result(op, c.outcome, c.calls, cur,
                                        IF c.outcome = "ok" THEN w.content
                                        ELSE NoText,
                                        NoContext, FALSE),
                                 w.num_predict)

NovelWriter_write_next_chapter(draft, fail, interrupted) ==
  LET lc == load_context(ctxFile)
      op == "write_next_chapter"
      cur == lc.ctx.current_chapter
      w == WritingEngine_write_chapter(cur, lc.ctx, sessFile, draft,
                                       <<>>, fail, interrupted)
      c == critique_chapter(cur, lc.ctx, w.calls, fail)
  IN /\ UNCHANGED <<ctxFile, tempFile, writer>>
     /\ CASE lc.kind = "error" ->
               /\ last' = Plain(op, "JSONDecodeError", <<>>)
               /\ UNCHANGED sessFile
          [] lc.kind = "none" ->
               /\ last' = Plain(op, "No active project found", <<>>)
               /\ UNCHANGED sessFile
          [] lc.kind = "ctx" /\ StoryComplete(lc.ctx) ->
               /\ last' = Plain(op, "completed", <<>>)
               /\ UNCHANGED sessFile
          [] OTHER ->
               /\ Len(sessFile.log) < MaxSessions
               /\ sessFile' = w.sfile
               /\ IF w.outcome # "ok"
                  THEN last' = WithRequest(Plain(op, w.outcome, w.calls),
                                           w.num_predict)
                  ELSE last' = WithRequest(
                                 Result(op, c.outcome, c.calls, cur,
                                        IF c.outcome = "ok" THEN w.content
                                        ELSE NoText,
                                        NoContext, FALSE),
                                 w.num_predict)

\* reads the first session record instead of the last
LatestContent_first(sessions) == sessions[1].content_written

\* the content NovelWriter.finalize_chapter hands to the engine is that of
\* the last session record
LatestContent(sessions) == sessions[Len(sessions)].content_written

\* takes the index from the session record instead of the cursor
FinalizeIndex_session(context, sessions) ==
  sessions[Len(sessions)].chapter_index

\* the index NovelWriter.finalize_chapter hands to the engine
FinalizeIndex(context, sessions) == context.current_chapter

\* revisions arguments: omitted (None), empty, or some revision notes
RevisionNotes == { None, "", "faster" }

\* revises whenever notes are given, approved or not
ReviseRequested_notes(approved, revisions) ==
  ~(revisions = None \/ revisions = "")

\* "not approved and revisions" on an Optional[str]
ReviseRequested(approved, revisions) ==
  ~approved /\ ~(revisions = None \/ revisions = "")

NovelWriter_finalize_chapter(approved, revisions, revised, arcResp, updates, fail, interrupted) ==
  LET lc == load_context(ctxFile)
      ls == load_sessions(sessFile)
      op == "finalize_chapter"
      R(outcome, calls, index, content, mem) ==
        Result(op, outcome, calls, index, content, mem, approved)
      revise == ReviseRequested(approved, revisions)
      content == IF revise THEN revised ELSE LatestContent(ls.sessions)
      index == FinalizeIndex(lc.ctx, ls.sessions)
      f == WritingEngine_finalize_chapter(
             index, content, lc.ctx, ctxFile, arcResp, updates,
             IF revise THEN <<"revision">> ELSE <<>>, fail, interrupted)
  IN /\ UNCHANGED <<sessFile, tempFile, writer>>
     /\ CASE lc.kind = "error" ->
               /\ last' = R("JSONDecodeError", <<>>, NoIndex, NoText, NoContext)
               /\ UNCHANGED ctxFile
          [] lc.kind = "none" ->
               /\ last' = R("No active project found", <<>>, NoIndex, NoText,
                            NoContext)
               /\ UNCHANGED ctxFile
          [] lc.kind = "ctx" /\ ls.kind = "error" ->
               /\ last' = R("JSONDecodeError", <<>>, NoIndex, NoText, NoContext)
               /\ UNCHANGED ctxFile
          [] lc.kind = "ctx" /\ ls.kind = "ok" /\ ls.sessions = <<>> ->
               /\ last' = R("No chapter content found", <<>>, NoIndex, NoText,
                            NoContext)
               /\ UNCHANGED ctxFile
          [] OTHER ->
               IF revise /\ fail = 1
               THEN /\ last' = R("generation failed", <<"revision">>,
                                 NoIndex, NoText, NoContext)
                    /\ UNCHANGED ctxFile
               ELSE /\ ctxFile' = f.file
                    /\ last' = IF f.outcome = "ok"
                               THEN R("ok", f.calls, index, content, NoContext)
                               ELSE R(f.outcome, f.calls, NoIndex, NoText,
                                      NoContext)

\* writes a note of the critique into the last session record
NovelWriter_run_story_critique_noted(fail) ==
  LET lc == load_context(ctxFile)
      op == "run_story_critique"
      ctx == lc.ctx
      cc == check_continuity(ctxFile, <<>>, fail)
      full == critique_full_story(cc.calls, fail)
      chap == critique_chapter(Len(ctx.completed_chapters) - 1, ctx,
                               cc.calls, fail)
      n == Len(sessFile.log)
  IN /\ UNCHANGED <<ctxFile, tempFile, writer>>
     /\ sessFile' = IF lc.kind = "ctx" /\ ctx.completed_chapters # <<>>
                                       /\ cc.outcome = "ok" /\ n > 0
                    THEN [sessFile EXCEPT !.log[n].critique_notes = "critiqued"]
                    ELSE sessFile
     /\ last' =
          CASE lc.kind = "error" -> Plain(op, "JSONDecodeError", <<>>)
            [] lc.kind = "none" -> Plain(op, "No active project found", <<>>)
            [] lc.kind = "ctx" /\ ctx.completed_chapters = <<>> ->
                 Plain(op, "No completed chapters to critique", <<>>)
            [] OTHER ->
                 IF cc.outcome # "ok" THEN Plain(op, cc.outcome, cc.calls)
                 ELSE IF Len(ctx.completed_chapters)
                           = Len(ctx.outline.chapters)
                      THEN Plain(op, full.outcome, full.calls)
                      ELSE Result(op, chap.outcome, chap.calls,
                                  Len(ctx.completed_chapters) - 1, NoText,
                                  NoContext, FALSE)

NovelWriter_run_story_critique(fail) ==
  LET lc == load_context(ctxFile)
      op == "run_story_critique"
      ctx == lc.ctx
      cc == check_continuity(ctxFile, <<>>, fail)
      full == critique_full_story(cc.calls, fail)
      chap == critique_chapter(Len(ctx.completed_chapters) - 1, ctx,
                               cc.calls, fail)
  IN /\ UNCHANGED <<ctxFile, sessFile, tempFile, writer>>
     /\ last' =
          CASE lc.kind = "error" -> Plain(op, "JSONDecodeError", <<>>)
            [] lc.kind = "none" -> Plain(op, "No active project found", <<>>)
            [] lc.kind = "ctx" /\ ctx.completed_chapters = <<>> ->
                 Plain(op, "No completed chapters to critique", <<>>)
            [] OTHER ->
                 IF cc.outcome # "ok" THEN Plain(op, cc.outcome, cc.calls)
                 ELSE IF Len(ctx.completed_chapters)
                           = Len(ctx.outline.chapters)
                      THEN Plain(op, full.outcome, full.calls)
                      ELSE Result(op, chap.outcome, chap.calls,
                                  Len(ctx.completed_chapters) - 1, NoText,
                                  NoContext, FALSE)

\* the signal get_story_status returns as {"error": ...} instead of raising
NoProjectReturned == "returned error: No active project found"

\* keeps the loaded context in an attribute of the instance
NovelWriter_get_story_status_cached ==
  LET lc == load_context(ctxFile)
      op == "get_story_status"
  IN /\ UNCHANGED <<ctxFile, sessFile, tempFile>>
     /\ writer' = [project_name |-> writer.project_name,
                   project_path |-> writer.project_path,
                   context_file |-> writer.context_file,
                   sessions_file |-> writer.sessions_file,
                   context |-> lc.ctx]
     /\ last' =
          CASE lc.kind = "error" -> Plain(op, "JSONDecodeError", <<>>)
            [] lc.kind = "none" -> Plain(op, NoProjectReturned, <<>>)
            [] lc.kind = "ctx" /\ lc.ctx.outline.chapters = <<>> ->
                 Plain(op, "ZeroDivisionError", <<>>)
            [] OTHER -> Plain(op, "ok", <<>>)

NovelWriter_get_story_status ==
  LET lc == load_context(ctxFile)
      op == "get_story_status"
  IN /\ UNCHANGED <<ctxFile, sessFile, tempFile, writer>>
     /\ last' =
          CASE lc.kind = "error" -> Plain(op, "JSONDecodeError", <<>>)
            [] lc.kind = "none" -> Plain(op, NoProjectReturned, <<>>)
            [] lc.kind = "ctx" /\ lc.ctx.outline.chapters = <<>> ->
                 Plain(op, "ZeroDivisionError", <<>>)
            [] OTHER -> Plain(op, "ok", <<>>)

NovelWriter_export_manuscript ==
  LET lc == load_context(ctxFile)
      op == "export_manuscript"
  IN /\ UNCHANGED <<ctxFile, sessFile, tempFile, writer>>
     /\ last' =
          CASE lc.kind = "error" -> Plain(op, "JSONDecodeError", <<>>)
            [] lc.kind = "none" -> Plain(op, "No active project found", <<>>)
            [] OTHER -> Plain(op, export_manuscript(lc.ctx), <<>>)

(***************************************************************************)
(* Specifications                                                          *)
(***************************************************************************)
\* the persisted context (meaningful when the context file is ok)
Persisted == load_context(ctxFile).ctx
HasContext == load_context(ctxFile).kind = "ctx"

\* the generator's answer to the next writing prompt
NextDraft == Draft(Len(sessFile.log) + 1)

\* the generator's answer to a revision prompt for the last session's text
NextRevision ==
  IF sessFile.log = <<>> THEN NoText ELSE Revised(LatestContent(sessFile.log))

\* the generator's answers to the arc prompts of one finalize, by character
ArcResponses(texts) == { [n \in {"Ana", "Bo", "Zed"} |-> t] : t \in texts }

StartNewProject(i) ==
  \E available \in BOOLEAN, fail \in 0..1 :
    NovelWriter_start_new_project(available, fail, i)

AnswerQuestions(i) ==
  \E outline \in Outlines, fail \in 0..1 :
    NovelWriter_answer_questions(outline, fail, i)

ApproveOutline(i) ==
  \E approved \in BOOLEAN, feedback \in Feedbacks :
    \E outline \in IF approved \/ NotFeedback(feedback) THEN {EmptyOutline}
                                                        ELSE Outlines,
       fail \in IF approved \/ NotFeedback(feedback) THEN {0} ELSE 0..1 :
      NovelWriter_approve_outline(approved, feedback, outline, fail, i)

WriteNextChapter(i) ==
  \E draft \in {NextDraft}, fail \in 0..2 :
    NovelWriter_write_next_chapter(draft, fail, i)

FinalizeChapter(i) ==
  \E approved \in BOOLEAN, revisions \in RevisionNotes :
    \E revised \in IF ReviseRequested(approved, revisions) THEN {NextRevision}
                                                          ELSE {NoText},
       arcResp \in ArcResponses({ArcSummary(1)}),
       updates \in ThreadResponses,
       fail \in IF ReviseRequested(approved, revisions) THEN FailPoints
                                                        ELSE RefreshFailPoints :
      NovelWriter_finalize_chapter(approved, revisions, revised, arcResp,
                                   updates, fail, i)

RunStoryCritique == \E fail \in 0..2 : NovelWriter_run_story_critique(fail)

ExportManuscript == NovelWriter_export_manuscript

GetStoryStatus == NovelWriter_get_story_status

\* the process ends and a new NovelWriter is constructed over the same
\* project directory (os.makedirs(..., exist_ok=True) leaves the files)
NewInstance ==
  /\ writer' = NovelWriter_init
  /\ UNCHANGED <<ctxFile, sessFile, tempFile, last>>

\* the orchestrator operations, every file write running to completion
Next ==
  \/ StartNewProject(FALSE)
  \/ AnswerQuestions(FALSE)
  \/ ApproveOutline(FALSE)
  \/ WriteNextChapter(FALSE)
  \/ FinalizeChapter(FALSE)
  \/ RunStoryCritique
  \/ ExportManuscript
  \/ GetStoryStatus
  \/ NewInstance

Spec == Init /\ [][Next]_vars

(***************************************************************************)
(* Interrupted writes: the process may stop inside any file write          *)
(***************************************************************************)
NextCrash ==
  \/ \E i \in BOOLEAN : StartNewProject(i)
  \/ \E i \in BOOLEAN : AnswerQuestions(i)
  \/ \E i \in BOOLEAN : ApproveOutline(i)
  \/ \E i \in BOOLEAN : WriteNextChapter(i)
  \/ \E i \in BOOLEAN : FinalizeChapter(i)
  \/ RunStoryCritique
  \/ ExportManuscript
  \/ GetStoryStatus
  \/ NewInstance

SpecCrash == Init /\ [][NextCrash]_vars

(***************************************************************************)
(* Direct calls of WritingEngine on a bootstrapped project, the context    *)
(* passed in being the one load_context returns                            *)
(***************************************************************************)
EngineFinalizeChapter ==
  \E index \in 0..MaxChapters, content \in {Draft(1)},
     arcResp \in ArcResponses(ArcTexts), updates \in ThreadResponses,
     fail \in 0..2 :
    LET lc == load_context(ctxFile)
        f == WritingEngine_finalize_chapter(index, content, lc.ctx, ctxFile,
                                            arcResp, updates, <<>>, fail,
                                            FALSE)
    IN /\ lc.kind = "ctx"
       /\ Len(lc.ctx.completed_chapters) < MaxChapters
       /\ ctxFile' = f.file
       /\ last' = Result("WritingEngine.finalize_chapter", f.outcome, f.calls,
                         index, content, f.mem, FALSE)
       /\ UNCHANGED <<sessFile, tempFile, writer>>

EngineWriteChapter ==
  \E index \in 0..MaxChapters, draft \in {NextDraft}, fail \in 0..1 :
    LET lc == load_context(ctxFile)
        w == WritingEngine_write_chapter(index, lc.ctx, sessFile, draft,
                                         <<>>, fail, FALSE)
    IN /\ lc.kind = "ctx"
       /\ Len(sessFile.log) < MaxSessions
       /\ sessFile' = w.sfile
       /\ last' = WithRequest(
                     Result("WritingEngine.write_chapter", w.outcome, w.calls,
                            index, w.content, NoContext, FALSE),
                     w.num_predict)
       /\ UNCHANGED <<ctxFile, tempFile, writer>>

NextEngine ==
  \/ StartNewProject(FALSE)
  \/ AnswerQuestions(FALSE)
  \/ EngineWriteChapter
  \/ EngineFinalizeChapter

SpecEngine == Init /\ [][NextEngine]_vars

(***************************************************************************)
(* Direct calls of ContextManager.save_context / load_context              *)
(***************************************************************************)
NoteDicts == { EmptyDict, [k \in {"city"} |-> "flooded"] }
ArcDicts == { EmptyDict, [k \in {"Ana"} |-> ArcSummary(1)] }
ThreadDicts == { EmptyDict, DefaultPlotThreads }

\* contexts handed to save_context: every field takes more than one value
SampleContexts ==
  { StoryContext(o, [i \in 1..n |-> Draft(1)], cur, arcs, threads, notes,
                 style) :
      o \in Outlines, n \in 0..MaxChapters, cur \in 0..MaxChapters,
      arcs \in ArcDicts, threads \in ThreadDicts, notes \in NoteDicts,
      style \in {"", "terse"} }

SaveContext ==
  \E c \in SampleContexts :
    /\ ctxFile' = save_context(c, FALSE)
    /\ last' = Result("save_context", "ok", <<>>, NoIndex, NoText, c, FALSE)
    /\ UNCHANGED <<sessFile, tempFile, writer>>

LoadContext ==
  LET lc == load_context(ctxFile)
  IN /\ last' = Result("load_context", lc.kind, <<>>, NoIndex, NoText, lc.ctx,
                       FALSE)
     /\ UNCHANGED <<ctxFile, sessFile, tempFile, writer>>

NextStore == SaveContext \/ LoadContext

SpecStore == Init /\ [][NextStore]_vars

(***************************************************************************)
(* Direct calls of WritingEngine.write_chapter on a bootstrapped project    *)
(***************************************************************************)
NextWrite ==
  \/ StartNewProject(FALSE)
  \/ AnswerQuestions(FALSE)
  \/ EngineWriteChapter

SpecWrite == Init /\ [][NextWrite]_vars

(***************************************************************************)
(* The writing cycle: every generation call returns, the outline is not     *)
(* revised, and the caller repeats write_next_chapter followed by           *)
(* finalize_chapter(approved=True)                                          *)
(***************************************************************************)
CycleStart ==
  /\ ctxFile.status = "absent"
  /\ tempFile = "absent"
  /\ NovelWriter_start_new_project(TRUE, 0, FALSE)

CycleAnswer ==
  \E outline \in Outlines : NovelWriter_answer_questions(outline, 0, FALSE)

\* the caller writes when no draft is pending
CycleWrite ==
  /\ HasContext
  /\ Len(sessFile.log) = Len(Persisted.completed_chapters)
  /\ NovelWriter_write_next_chapter(NextDraft, 0, FALSE)

\* the caller approves the pending draft
CycleFinalize ==
  /\ HasContext
  /\ Len(sessFile.log) = Len(Persisted.completed_chapters) + 1
  /\ \E arcResp \in ArcResponses(ArcTexts), updates \in ThreadResponses :
       NovelWriter_finalize_chapter(TRUE, None, NoText, arcResp, updates, 0,
                                    FALSE)

CycleStatus == HasContext /\ NovelWriter_get_story_status

NextCycle ==
  \/ CycleStart
  \/ CycleAnswer
  \/ CycleWrite
  \/ CycleFinalize
  \/ CycleStatus

\* the caller goes on calling: a call that stays possible is made
SpecCycle ==
  /\ Init /\ [][NextCycle]_vars
  /\ WF_vars(CycleWrite) /\ WF_vars(CycleFinalize)

(***************************************************************************)
(* Direct calls of the text functions on stored contexts whose chapters     *)
(* are strings of known length                                              *)
(***************************************************************************)
\* chapter texts: the empty string, 1500 times "a", 600 times "b"
CallTexts == { EmptyText, << Run("a", 1500) >>, << Run("b", 600) >> }

\* existing texts and continuations: with and without newlines at the ends
ContinueTexts ==
  { EmptyText, << Run("a", 3) >>, << Run("\n", 1) >>,
    << Run("\n", 1), Run("a", 1), Run("\n", 2) >> }

CallContexts ==
  { StoryContext(StoryOutline([i \in 1..MaxChapters |-> BookA(i)]), done, cur,
                 EmptyDict, DefaultPlotThreads, EmptyDict, "") :
      done \in UNION { [1..n -> CallTexts] : n \in 0..MaxChapters },
      cur \in 0..MaxChapters }

\* contexts handed to check_continuity: none, an empty and a long chapter
GivenContexts ==
  { c \in CallContexts :
      /\ c.current_chapter = Len(c.completed_chapters)
      /\ c.completed_chapters
           \in { <<>>, << EmptyText >>, << << Run("a", 1500) >> >> } }

StoreContext ==
  \E c \in CallContexts :
    /\ ctxFile' = save_context(c, FALSE)
    /\ last' = Plain("save_context", "ok", <<>>)
    /\ UNCHANGED <<sessFile, tempFile, writer>>

ContextGetRecentContent ==
  \E n \in 0..MaxWindow :
    /\ last' = Result("get_recent_content", "ok", <<>>, n,
                      get_recent_content(ctxFile, n), NoContext, FALSE)
    /\ UNCHANGED <<ctxFile, sessFile, tempFile, writer>>

EngineBuildWritingPrompt ==
  /\ last' = Result("_build_writing_prompt", "ok", <<>>, NoIndex,
                    recent_excerpt(ctxFile), NoContext, FALSE)
  /\ UNCHANGED <<ctxFile, sessFile, tempFile, writer>>

ContinueChapterCall(index, existing, continuation, fail) ==
  LET r == WritingEngine_continue_chapter(index, existing, Persisted,
                                          continuation, <<>>, fail)
  IN /\ HasContext
     /\ last' = Result("continue_chapter", r.outcome, r.calls, index,
                       r.content, NoContext, FALSE)
     /\ UNCHANGED <<ctxFile, sessFile, tempFile, writer>>

EngineContinueChapter ==
  \E index \in 0..MaxChapters, existing \in ContinueTexts,
     continuation \in ContinueTexts, fail \in 0..1 :
    ContinueChapterCall(index, existing, continuation, fail)

CriticCheckContinuity ==
  \E given \in GivenContexts, fail \in 0..1 :
    LET cc == check_continuity(ctxFile, <<>>, fail)
    IN /\ last' = Result("check_continuity", cc.outcome, cc.calls, NoIndex,
                         NoText, given, FALSE)
       /\ UNCHANGED <<ctxFile, sessFile, tempFile, writer>>

NextCalls ==
  \/ StoreContext
  \/ ContextGetRecentContent
  \/ EngineBuildWritingPrompt
  \/ EngineContinueChapter
  \/ CriticCheckContinuity

SpecCalls == Init /\ [][NextCalls]_vars

(***************************************************************************)
(* Direct calls of WritingEngine.finalize_chapter on stored contexts with   *)
(* and without arcs and plot threads                                        *)
(***************************************************************************)
\* a chapter that lists a main character twice
Duel == Chapter("Duel", <<"Bo", "Ana", "Bo">>, 900)

RefreshOutline == StoryOutline(<< Arrival, Storm, Return, Duel >>)

\* an arc summary stored by an earlier finalize
OldArc == Text("arc", 0)

RefreshArcs ==
  { EmptyDict,
    [n \in {"Ana", "Bo"} |-> OldArc],
    [n \in {"Bo", "Zed"} |-> OldArc] }

RefreshThreads ==
  { EmptyDict,
    DefaultPlotThreads,
    [k \in {"main_plot"} |-> Status("Updated after Chapter", 1)] }

RefreshContexts ==
  { StoryContext(RefreshOutline, <<>>, 0, arcs, threads, EmptyDict, "") :
      arcs \in RefreshArcs, threads \in RefreshThreads }

\* the generator's answers to the arc prompts, one text per character
RefreshArcResponses == [{"Ana", "Bo", "Zed"} -> ArcTexts]

StoreRefreshContext ==
  \E c \in RefreshContexts :
    /\ ctxFile' = save_context(c, FALSE)
    /\ last' = Plain("save_context", "ok", <<>>)
    /\ UNCHANGED <<sessFile, tempFile, writer>>

RefreshCall(index, arcResp, updates, fail) ==
  LET lc == load_context(ctxFile)
      f == WritingEngine_finalize_chapter(index, Draft(1), lc.ctx, ctxFile,
                                          arcResp, updates, <<>>, fail, FALSE)
  IN /\ lc.kind = "ctx"
     /\ lc.ctx.completed_chapters = <<>>
     /\ ctxFile' = f.file
     /\ last' = Result("WritingEngine.finalize_chapter", f.outcome, f.calls,
                       index, Draft(1), NoContext, FALSE)
     /\ UNCHANGED <<sessFile, tempFile, writer>>

EngineRefresh ==
  \E index \in 0..Len(RefreshOutline.chapters),
     arcResp \in RefreshArcResponses, updates \in ThreadResponses,
     fail \in 0..4 :
    RefreshCall(index, arcResp, updates, fail)

NextRefresh == StoreRefreshContext \/ EngineRefresh

SpecRefresh == Init /\ [][NextRefresh]_vars

(***************************************************************************)
(* Properties                                                              *)
(***************************************************************************)
IsPrefix(a, b) == Len(a) <= Len(b) /\ \A i \in 1..Len(a) : a[i] = b[i]

\* C1: WritingEngine.finalize_chapter with an index other than the passed-in
\* context's current_chapter is rejected and changes neither the passed-in
\* context nor the context file.
C1_FinalizeRejectsOtherIndex ==
  [][ ( /\ last'.op = "WritingEngine.finalize_chapter"
        /\ last'.chapter_index # Persisted.current_chapter )
      => ( /\ last'.outcome # "ok"
           /\ ctxFile' = ctxFile
           /\ last'.mem = Persisted ) ]_vars

\* C2: in every persisted context reachable by the orchestrator operations,
\* current_chapter equals the number of completed chapters.
C2_CursorIsCompletedCount ==
  HasContext => Persisted.current_chapter = Len(Persisted.completed_chapters)

C2_Witness ==
  /\ HasContext
  /\ last.op = "finalize_chapter" /\ last.outcome = "ok"
  /\ Persisted.current_chapter = 2
  /\ Len(Persisted.completed_chapters) = 2

\* C3: when write_next_chapter returned draft T for chapter k and the next
\* operation is a successful finalize_chapter(approved=true), the persisted
\* context has current_chapter = k+1 and completed_chapters[k] = T.
C3_FinalizeCommitsReturnedDraft ==
  [][ ( /\ last.op = "write_next_chapter" /\ last.outcome = "ok"
        /\ last'.op = "finalize_chapter" /\ last'.outcome = "ok"
        /\ last'.approved )
      => ( /\ load_context(ctxFile').kind = "ctx"
           /\ load_context(ctxFile').ctx.current_chapter
                = last.chapter_index + 1
           /\ Len(load_context(ctxFile').ctx.completed_chapters)
                = last.chapter_index + 1
           /\ load_context(ctxFile').ctx.completed_chapters
                [last.chapter_index + 1] = last.content ) ]_vars

C3_Witness ==
  /\ last.op = "finalize_chapter" /\ last.outcome = "ok" /\ last.approved
  /\ Len(sessFile.log) = 2
  /\ sessFile.log[1].content_written # sessFile.log[2].content_written
  /\ sessFile.log[2].chapter_index = 1
  /\ Persisted.completed_chapters[2] = sessFile.log[2].content_written

\* C4: when the persisted current_chapter equals the number of outline
\* chapters, write_next_chapter returns the completed signal, issues no
\* generation call, appends no session and leaves the context file unchanged.
C4_CompleteIsNoOp ==
  [][ ( /\ HasContext
        /\ Persisted.current_chapter = Len(Persisted.outline.chapters)
        /\ last'.op = "write_next_chapter" )
      => ( /\ last'.outcome = "completed"
           /\ last'.calls = <<>>
           /\ sessFile' = sessFile
           /\ ctxFile' = ctxFile ) ]_vars

C4_Witness ==
  /\ HasContext
  /\ last.op = "write_next_chapter" /\ last.outcome = "completed"
  /\ Persisted.current_chapter = Len(Persisted.outline.chapters)
  /\ Persisted.current_chapter > 0

\* C5: a write_next_chapter call made while current_chapter is below the
\* number of outline chapters and that returns normally has appended exactly
\* one session record, with chapter_index = current_chapter and the returned
\* draft, and has issued one writing call and one chapter critique.
C5_WriteLogsOneSessionAndCritiques ==
  [][ ( /\ HasContext
        /\ Persisted.current_chapter < Len(Persisted.outline.chapters)
        /\ last'.op = "write_next_chapter" /\ last'.outcome = "ok" )
      => ( /\ last'.calls = <<"write", "critique">>
           /\ last'.content \in Drafts
           /\ last'.chapter_index = Persisted.current_chapter
           /\ sessFile'.log =
                Append(sessFile.log,
                       [chapter_index |-> Persisted.current_chapter,
                        content_written |-> last'.content,
                        critique_notes |-> JsonNull]) ) ]_vars

C5_Witness ==
  /\ last.op = "write_next_chapter" /\ last.outcome = "ok"
  /\ last.chapter_index = 1
  /\ Len(sessFile.log) = 2

\* C6: the session log only grows by appending: the log before an operation
\* is a prefix of the log after it, a write_chapter invocation that returns
\* adds exactly one record, and an operation that appends a session leaves
\* the context file unchanged.
C6_SessionLogAppendOnly ==
  [][ /\ IsPrefix(sessFile.log, sessFile'.log)
      /\ Len(sessFile'.log) <= Len(sessFile.log) + 1
      /\ ( last'.op = "write_next_chapter" /\ Len(last'.calls) = 2
           => Len(sessFile'.log) = Len(sessFile.log) + 1 )
      /\ ( sessFile' # sessFile => ctxFile' = ctxFile ) ]_vars

\* a draft was logged although its critique failed, after an earlier draft
C6_Witness ==
  /\ last.op = "write_next_chapter" /\ last.outcome = "generation failed"
  /\ last.calls = <<"write", "critique">>
  /\ Len(sessFile.log) = 2

\* C7: an interrupted save_context leaves load_context returning what it
\* returned before the save.
C7_SaveAllOrNothing ==
  [][ last'.outcome = "interrupted"
      => load_context(ctxFile') = load_context(ctxFile) ]_vars

C9_FailedFinalizePersistsNothing ==
  [][ ( last'.op = "finalize_chapter"
        /\ last'.outcome = "generation failed" )
      => ctxFile' = ctxFile ]_vars

\* the thread refresh failed after an arc had been refreshed in memory
C9_Witness ==
  /\ last.op = "finalize_chapter" /\ last.outcome = "generation failed"
  /\ last.calls = <<"arc", "threads">>
  /\ HasContext

\* C10: whenever finalize_chapter commits completed_chapters[k], the session
\* record it reads has chapter_index = k.
C10_FinalizeReadsDraftOfThatChapter ==
  [][ ( last'.op = "finalize_chapter" /\ last'.outcome = "ok" )
      => sessFile.log[Len(sessFile.log)].chapter_index
           = last'.chapter_index ]_vars

\* C11: every persisted context has no more completed chapters than outline
\* chapters and a cursor no greater than the number of outline chapters, also
\* after approve_outline(approved=false, feedback) changed the chapter count.
C11_CompletedWithinOutline ==
  HasContext =>
    /\ Len(Persisted.completed_chapters) <= Len(Persisted.outline.chapters)
    /\ Persisted.current_chapter <= Len(Persisted.outline.chapters)

\* C12: once writing has begun (a draft session exists or current_chapter > 0)
\* no operation changes the chapter list of the persisted outline.
C12_ChaptersFrozenOnceWriting ==
  [][ ( /\ HasContext
        /\ ( sessFile.log # <<>> \/ Persisted.current_chapter > 0 ) )
      => ( /\ load_context(ctxFile').kind = "ctx"
           /\ load_context(ctxFile').ctx.outline.chapters
                = Persisted.outline.chapters ) ]_vars

\* C13: approve_outline(approved=false) with omitted or empty feedback raises
\* ValueError, issues no generation call and leaves the context file as it was.
C13_RevisionNeedsFeedback ==
  [][ ( last'.op = "approve_outline" /\ ~last'.approved )
      => \A feedback \in { None, "" }, outline \in Outlines, fail \in 0..1 :
           NovelWriter_approve_outline(FALSE, feedback, outline, fail, FALSE)
           => ( /\ last'.outcome = "ValueError"
                /\ last'.calls = <<>>
                /\ ctxFile' = ctxFile ) ]_vars

C13_Witness ==
  /\ last.op = "approve_outline" /\ last.outcome = "ValueError"
  /\ ~last.approved
  /\ HasContext
  /\ Persisted.outline.chapters # <<>>

\* C14: while there is no context file, write_next_chapter, finalize_chapter,
\* approve_outline(approved=false, feedback), export_manuscript and
\* run_story_critique raise "No active project found", get_story_status
\* returns it as an error value, answer_questions raises it when the
\* transient file is absent too, and none of them issues a generation call or
\* changes a project file.
C14_NoProjectSignal ==
  [][ ctxFile.status = "absent"
      => ( /\ ( last'.op \in { "write_next_chapter", "finalize_chapter",
                              "export_manuscript", "run_story_critique" }
                => ( /\ last'.outcome = "No active project found"
                     /\ last'.calls = <<>>
                     /\ UNCHANGED <<ctxFile, sessFile, tempFile>> ) )
           /\ ( last'.op = "get_story_status"
                => ( /\ last'.outcome = NoProjectReturned
                     /\ last'.calls = <<>>
                     /\ UNCHANGED <<ctxFile, sessFile, tempFile>> ) )
           /\ ( ( last'.op = "answer_questions" /\ tempFile = "absent" )
                => ( /\ last'.outcome = "No active project found"
                     /\ last'.calls = <<>>
                     /\ UNCHANGED <<ctxFile, sessFile, tempFile>> ) )
           /\ \A outline \in Outlines, fail \in 0..1 :
                NovelWriter_approve_outline(FALSE, "tighter", outline, fail,
                                            FALSE)
                => ( /\ last'.outcome = "No active project found"
                     /\ last'.calls = <<>>
                     /\ UNCHANGED <<ctxFile, sessFile, tempFile>> ) ) ]_vars

\* finalize_chapter on a project that was started but has no outline yet
C14_Witness ==
  /\ ctxFile.status = "absent"
  /\ tempFile = "ok"
  /\ last.op = "finalize_chapter"
  /\ last.outcome = "No active project found"

\* C15: an answer_questions call that returns has started from no context
\* file and a transient file, issued one outline call, saved a context with
\* the returned outline, current_chapter 0, no completed chapters, no arcs
\* and the plot threads main_plot and character_development at their default
\* texts, and removed the transient file.
C15_BootstrapContext ==
  [][ \A outline \in Outlines :
        ( /\ last'.op = "answer_questions" /\ last'.outcome = "ok"
          /\ NovelWriter_answer_questions(outline, 0, FALSE) )
        => ( /\ ctxFile.status = "absent"
             /\ tempFile = "ok"
             /\ last'.calls = <<"outline">>
             /\ load_context(ctxFile').kind = "ctx"
             /\ LET c == load_context(ctxFile').ctx
                IN /\ c.outline = outline
                   /\ c.current_chapter = 0
                   /\ c.completed_chapters = <<>>
                   /\ DOMAIN c.character_arcs = {}
                   /\ DOMAIN c.plot_threads
                        = { "main_plot", "character_development" }
                   /\ c.plot_threads["main_plot"].text = "Beginning"
                   /\ c.plot_threads["character_development"].text
                        = "Initial setup"
             /\ tempFile' = "absent" ) ]_vars

C15_Witness ==
  /\ last.op = "answer_questions" /\ last.outcome = "ok"
  /\ HasContext
  /\ Len(Persisted.outline.chapters) = 2
  /\ tempFile = "absent"

\* C16: between operations the transient file is present only while there is
\* no context file.
C16_TransientOnlyBeforeContext ==
  tempFile # "absent" => ctxFile.status = "absent"

\* C17: answer_questions on a project that already has a context file raises
\* "Project already has an outline", issues no generation call and leaves the
\* context file as it was.
C17_BootstrapOnlyOnce ==
  [][ ( ctxFile.status = "ok" /\ last'.op = "answer_questions" )
      => ( /\ last'.outcome = "Project already has an outline"
           /\ last'.calls = <<>>
           /\ ctxFile' = ctxFile ) ]_vars

\* rejected although a transient file is there again and a chapter is done
C17_Witness ==
  /\ last.op = "answer_questions"
  /\ last.outcome = "Project already has an outline"
  /\ tempFile = "ok"
  /\ HasContext
  /\ Persisted.completed_chapters # <<>>

C19_CursorMonotonic ==
  [][ ( ctxFile.status = "ok" /\ ctxFile' # ctxFile )
      => LET before == Persisted.current_chapter
             after == load_context(ctxFile')
         IN /\ after.kind = "ctx"
            /\ after.ctx.current_chapter >= before
            /\ ( after.ctx.current_chapter # before
                 => ( /\ after.ctx.current_chapter = before + 1
                      /\ last'.op = "finalize_chapter"
                      /\ last'.outcome = "ok" ) ) ]_vars

\* the outline was revised to fewer chapters than the cursor has passed
C19_Witness ==
  /\ last.op = "approve_outline" /\ last.outcome = "ok"
  /\ last.calls = <<"outline">>
  /\ HasContext
  /\ Persisted.current_chapter = 2
  /\ Len(Persisted.outline.chapters) < 2

\* C20: completed_chapters of the persisted context before an operation is a
\* prefix of completed_chapters after it (an operation that rewrites the
\* context file leaves a context in it).
C20_CompletedAppendOnly ==
  [][ ( ctxFile.status = "ok" /\ ctxFile' # ctxFile )
      => ( /\ load_context(ctxFile').kind = "ctx"
           /\ IsPrefix(Persisted.completed_chapters,
                       load_context(ctxFile').ctx.completed_chapters) ) ]_vars

\* the outline was revised after a chapter had been finalized
C20_Witness ==
  /\ last.op = "approve_outline" /\ last.outcome = "ok"
  /\ last.calls = <<"outline">>
  /\ HasContext
  /\ Persisted.completed_chapters = <<Draft(1)>>
  /\ Persisted.outline.chapters # <<>>
  /\ Persisted.outline.chapters[1] = Storm

C22_ContinueKeepsExisting ==
  [][ ( last'.op = "continue_chapter" /\ last'.outcome = "ok" )
      => \A existing \in ContinueTexts, continuation \in ContinueTexts :
           ContinueChapterCall(last'.chapter_index, existing, continuation, 0)
           => LET result == last'.content
                  rest == SliceFrom(result, TextLen(existing))
              IN /\ TextLen(result)
                      = TextLen(existing) + 2 + TextLen(continuation)
                 /\ SliceTo(result, TextLen(existing)) = existing
                 /\ SliceTo(rest, 2) = BlankLine
                 /\ SliceFrom(rest, 2) = continuation ]_vars

\* an existing text ending in newlines was continued by an answer starting
\* with one
C22_Witness ==
  /\ last.op = "continue_chapter" /\ last.outcome = "ok"
  /\ last.content
       = << Run("\n", 1), Run("a", 1), Run("\n", 5), Run("a", 1),
            Run("\n", 2) >>

\* C23: check_continuity(context) issues no generation call when the given
\* context has no completed chapters, and exactly one otherwise.
C23_ContinuityCallsFollowGivenContext ==
  [][ last'.op = "check_continuity"
      => IF last'.mem.completed_chapters = <<>>
         THEN last'.outcome = "ok" /\ last'.calls = <<>>
         ELSE last'.calls = << "continuity" >> ]_vars

\* C24: start_new_project with the generator available issues exactly one
\* generation call (the analysis), leaves the context file and the session
\* file as they were, and when the call returns writes the transient file.
C24_StartWritesTransientOnly ==
  [][ last'.op = "start_new_project"
      => \A fail \in 0..1 :
           NovelWriter_start_new_project(TRUE, fail, FALSE)
           => ( /\ last'.calls = <<"analysis">>
                /\ ctxFile' = ctxFile
                /\ sessFile' = sessFile
                /\ ( fail = 0 => ( last'.outcome = "ok" /\ tempFile' = "ok" ) )
                /\ ( fail = 1 => tempFile' = tempFile ) ) ]_vars

\* a project was started in a directory that already holds a context
C24_Witness ==
  /\ last.op = "start_new_project" /\ last.outcome = "ok"
  /\ last.calls = <<"analysis">>
  /\ tempFile = "ok"
  /\ HasContext
  /\ Persisted.completed_chapters # <<>>

\* C25: WritingEngine.write_chapter with an index at or past the number of
\* outline chapters raises ValueError, issues no generation call and leaves
\* the session file as it was.
C25_WritePastEndRejected ==
  [][ ( /\ last'.op = "WritingEngine.write_chapter"
        /\ HasContext
        /\ last'.chapter_index >= Len(Persisted.outline.chapters) )
      => ( /\ last'.outcome = "ValueError"
           /\ last'.calls = <<>>
           /\ sessFile' = sessFile ) ]_vars

\* rejected at exactly the number of chapters, with a session already logged
C25_Witness ==
  /\ last.op = "WritingEngine.write_chapter" /\ last.outcome = "ValueError"
  /\ HasContext
  /\ Persisted.outline.chapters # <<>>
  /\ last.chapter_index = Len(Persisted.outline.chapters)
  /\ sessFile.log # <<>>

\* C26: with every generation call returning and the outline left alone, a
\* bootstrapped project whose caller alternates write_next_chapter and
\* finalize_chapter(approved=True) reaches the end of its outline: each
\* finalize advances the cursor by one, the number of drafts written never
\* differs from the cursor by more than the pending one, the cursor arrives at
\* the number of chapters with as many drafts written, and from then on
\* write_next_chapter returns the completed signal and changes no file.
C26_CyclesReachCompletion ==
  /\ [][ last'.op = "finalize_chapter"
         => /\ last'.outcome = "ok"
            /\ load_context(ctxFile').ctx.current_chapter
                 = Persisted.current_chapter + 1 ]_vars
  /\ [](HasContext
        => Len(sessFile.log) - Persisted.current_chapter \in {0, 1})
  /\ [](HasContext
        => <>( /\ HasContext
               /\ StoryComplete(Persisted)
               /\ Len(sessFile.log) = Len(Persisted.outline.chapters) ))
  /\ [][ ( HasContext /\ StoryComplete(Persisted) )
         => /\ ctxFile' = ctxFile /\ sessFile' = sessFile
            /\ ( last'.op = "write_next_chapter"
                 => last'.outcome = "completed" ) ]_vars

\* two cycles done on a two-chapter outline, then one more write
C26_Witness ==
  /\ HasContext
  /\ Len(Persisted.outline.chapters) = 2
  /\ Persisted.current_chapter = 2
  /\ Len(sessFile.log) = 2
  /\ last.op = "write_next_chapter" /\ last.outcome = "completed"

\* C27: the continuity excerpt of the writing prompt has at most 2000
\* characters and is the end of the recent content, so it closes with the end
\* of the latest completed chapter.
C27_ExcerptIsTail ==
  [][ ( /\ last'.op = "_build_writing_prompt"
        /\ get_recent_content(ctxFile, 2) # EmptyText )
      => LET recent == get_recent_content(ctxFile, 2)
             excerpt == last'.content
         IN /\ TextLen(excerpt) <= ExcerptChars
            /\ excerpt
                 = SliceFrom(recent, TextLen(recent) - TextLen(excerpt)) ]_vars

\* C28: the request write_chapter sends for a chapter with word-count target
\* w >= 0 carries the limit floor(1.5 * w) and never the unbounded limit.
C28_WriteRequestBounded ==
  [][ ( /\ last'.op = "WritingEngine.write_chapter"
        /\ last'.num_predict # NoRequest
        /\ HasContext )
      => LET w == Persisted.outline.chapters[last'.chapter_index + 1]
                    .word_count_target
         IN w >= 0 => /\ last'.num_predict = (3 * w) \div 2
                      /\ last'.num_predict # Unbounded ]_vars

\* C29: get_recent_content(n) returns the completed chapters at positions
\* max(0, c-n) .. c-1 of the persisted context with cursor c, joined in order
\* by blank lines: all chapters before the cursor when n >= c, the empty text
\* when n = 0 or c = 0, never a chapter at or after the cursor.
C29_RecentContentWindow ==
  [][ ( last'.op = "get_recent_content" /\ HasContext )
      => LET n == last'.chapter_index
             c == Persisted.current_chapter
             done == Persisted.completed_chapters
             lo == IF c > n THEN c - n ELSE 0
             hi == IF c < Len(done) THEN c ELSE Len(done)
             window == [i \in 1..(hi - lo) |-> done[lo + i]]
             before == [i \in 1..hi |-> done[i]]
         IN /\ last'.content = Join(BlankLine, window)
            /\ n >= c => last'.content = Join(BlankLine, before)
            /\ (n = 0 \/ c = 0) => last'.content = EmptyText ]_vars

\* a window of one on two different chapters returned the second alone
C29_Witness ==
  /\ last.op = "get_recent_content" /\ last.chapter_index = 1
  /\ HasContext
  /\ Persisted.current_chapter = 2
  /\ Persisted.completed_chapters = << Text("a", 1500), Text("b", 600) >>
  /\ last.content = Text("b", 600)

\* C30: a finalize_chapter that returns has committed exactly one chapter and
\* left the session file as it was; with approved=true, or with omitted or
\* empty revision notes, the chapter is the last session record's text and no
\* revision call was issued; with approved=false and revision notes exactly
\* one revision call was issued, first, and the chapter is its answer to that
\* text.
C30_FinalizeCommitsLatestOrRevision ==
  [][ ( last'.op = "finalize_chapter" /\ last'.outcome = "ok" )
      => LET latest == sessFile.log[Len(sessFile.log)].content_written
             after == load_context(ctxFile')
             revisionCalls ==
               { i \in DOMAIN last'.calls : last'.calls[i] = "revision" }
         IN /\ sessFile' = sessFile
            /\ after.kind = "ctx"
            /\ after.ctx.completed_chapters
                 = Append(Persisted.completed_chapters, last'.content)
            /\ \A revisions \in RevisionNotes, updates \in ThreadResponses,
                  revised \in { NoText, NextRevision },
                  arcResp \in ArcResponses({ArcSummary(1)}) :
                 NovelWriter_finalize_chapter(last'.approved, revisions,
                                              revised, arcResp, updates, 0,
                                              FALSE)
                 => IF last'.approved \/ revisions \in { None, "" }
                    THEN /\ last'.content = latest
                         /\ revisionCalls = {}
                    ELSE /\ revisionCalls = {1}
                         /\ revised = NextRevision
                         /\ last'.content = Revised(latest) ]_vars

\* the second chapter was committed as the revision of its draft
C30_Witness ==
  /\ last.op = "finalize_chapter" /\ last.outcome = "ok"
  /\ ~last.approved
  /\ last.calls[1] = "revision"
  /\ Len(Persisted.completed_chapters) = 2
  /\ Persisted.completed_chapters[2] = Revised(Draft(2))
  /\ sessFile.log[2].content_written = Draft(2)

\* C31: write_next_chapter leaves the context file as it was; a call that
\* logs a draft appends exactly one session record, whose chapter_index is the
\* persisted cursor, so m calls without a finalize give m records of the
\* current chapter; of these the finalize_chapter that follows commits the
\* last (or, when a revision was asked for, the revision of the last).
C31_DraftsLeaveContext ==
  [][ /\ last'.op = "write_next_chapter"
         => /\ ctxFile' = ctxFile
            /\ \/ sessFile' = sessFile
               \/ /\ HasContext
                  /\ Len(sessFile'.log) = Len(sessFile.log) + 1
                  /\ SubSeq(sessFile'.log, 1, Len(sessFile.log)) = sessFile.log
                  /\ sessFile'.log[Len(sessFile'.log)].chapter_index
                       = Persisted.current_chapter
            /\ last'.outcome = "ok" => sessFile' # sessFile
      /\ ( last'.op = "finalize_chapter" /\ last'.outcome = "ok" )
         => LET latest == sessFile.log[Len(sessFile.log)].content_written
                done == load_context(ctxFile').ctx.completed_chapters
            IN /\ Len(done) = Len(Persisted.completed_chapters) + 1
               /\ done[Len(done)] \in { latest, Revised(latest) }
               /\ last'.approved => done[Len(done)] = latest ]_vars

\* two drafts of the first chapter were logged, the second was committed
C31_Witness ==
  /\ last.op = "finalize_chapter" /\ last.outcome = "ok"
  /\ HasContext
  /\ Persisted.current_chapter = 1
  /\ Len(sessFile.log) = 2
  /\ \A i \in 1..2 : sessFile.log[i].chapter_index = 0
  /\ Persisted.completed_chapters = << Draft(2) >>

\* C32: with the cursor at or past the number of outline chapters,
\* finalize_chapter is rejected, whatever its arguments, without a generation
\* call having been issued and with the context file left as it was.
C32_FinalizePastEndRejected ==
  [][ ( /\ last'.op = "finalize_chapter"
        /\ HasContext
        /\ StoryComplete(Persisted) )
      => /\ last'.outcome # "ok"
         /\ last'.calls = <<>>
         /\ ctxFile' = ctxFile ]_vars

\* C33: a finalize of chapter k that returns has issued one arc call for
\* every listing in the chapter's characters_involved of a main character's
\* name and none for any other name; the arc of each such name is the answer
\* given for it, and every other arc entry is as it was.
C33_ArcsOfInvolvedMainCharacters ==
  [][ ( last'.op = "WritingEngine.finalize_chapter" /\ last'.outcome = "ok" )
      => \A arcResp \in RefreshArcResponses, updates \in ThreadResponses :
           RefreshCall(last'.chapter_index, arcResp, updates, 0)
           => LET before == Persisted.character_arcs
                  after == load_context(ctxFile').ctx.character_arcs
                  involved == Persisted.outline.chapters
                                [last'.chapter_index + 1].characters_involved
                  main == { MainCharacters[i].name : i \in 1..Len(MainCharacters) }
                  listed == { i \in DOMAIN involved : involved[i] \in main }
                  named == { involved[i] : i \in listed }
                  arcCalls == { i \in DOMAIN last'.calls : last'.calls[i] = "arc" }
              IN /\ DOMAIN after = (DOMAIN before) \cup named
                 /\ \A c \in named : after[c] = arcResp[c]
                 /\ \A c \in (DOMAIN before) \ named : after[c] = before[c]
                 /\ Cardinality(arcCalls) = Cardinality(listed) ]_vars

\* chapter "Storm" (Zed, Ana) finalized: Ana's arc is new, Bo's is the old
\* one, Zed has none
C33_Witness ==
  /\ last.op = "WritingEngine.finalize_chapter" /\ last.outcome = "ok"
  /\ last.chapter_index = 1
  /\ HasContext
  /\ DOMAIN Persisted.character_arcs = {"Ana", "Bo"}
  /\ Persisted.character_arcs["Ana"] = ArcSummary(1)
  /\ Persisted.character_arcs["Bo"] = OldArc

\* C34: a finalize issues no thread call when plot_threads is empty and at
\* most one otherwise, exactly one when it returns; a thread's status changes
\* only if its lowered name occurs in the lowered answer, and the thread names
\* stay the same.
C34_ThreadRefresh ==
  [][ last'.op = "WritingEngine.finalize_chapter"
      => LET before == Persisted.plot_threads
             after == load_context(ctxFile').ctx.plot_threads
             threadCalls ==
               { i \in DOMAIN last'.calls : last'.calls[i] = "threads" }
         IN /\ DOMAIN after = DOMAIN before
            /\ DOMAIN before = {} => threadCalls = {}
            /\ Cardinality(threadCalls) <= 1
            /\ ( last'.outcome = "ok" /\ DOMAIN before # {} )
               => Cardinality(threadCalls) = 1
            /\ \A arcResp \in RefreshArcResponses, updates \in ThreadResponses,
                  fail \in 0..4 :
                 RefreshCall(last'.chapter_index, arcResp, updates, fail)
                 => \A k \in DOMAIN before :
                      after[k] # before[k]
                      => /\ threadCalls # {}
                         /\ IsSubstring(lower(NameChars(k)), lower(updates)) ]_vars

\* the answer "MAIN_PLOT up" marked main_plot and left the other thread
C34_Witness ==
  /\ last.op = "WritingEngine.finalize_chapter" /\ last.outcome = "ok"
  /\ HasContext
  /\ DOMAIN Persisted.plot_threads = {"main_plot", "character_development"}
  /\ Persisted.plot_threads["main_plot"]
       = Status("Updated after Chapter", last.chapter_index + 1)
  /\ Persisted.plot_threads["character_development"]
       = Status("Initial setup", 0)

\* C35: approve_outline leaves the session log alone; with approved=true it
\* returns without reading or writing a file, whatever state the project is
\* in; a revision that returns has put the generated outline, whole, in the
\* place of the persisted one and left every other field of the context as it
\* was.
C35_RevisionReplacesOutlineOnly ==
  [][ last'.op = "approve_outline"
      => /\ sessFile' = sessFile
         /\ tempFile' = tempFile
         /\ last'.approved
            => /\ ctxFile' = ctxFile
               /\ last'.outcome = "ok"
               /\ last'.calls = <<>>
         /\ ( ~last'.approved /\ last'.outcome = "ok" )
            => \A outline \in Outlines :
                 NovelWriter_approve_outline(FALSE, "tighter", outline, 0,
                                             FALSE)
                 => LET after == load_context(ctxFile').ctx
                    IN /\ after.outline = outline
                       /\ after.completed_chapters
                            = Persisted.completed_chapters
                       /\ after.current_chapter = Persisted.current_chapter
                       /\ after.character_arcs = Persisted.character_arcs
                       /\ after.plot_threads = Persisted.plot_threads
                       /\ after.world_building_notes
                            = Persisted.world_building_notes ]_vars

\* the outline was replaced by the other chapter order after a chapter with
\* an arc had been finalized
C35_Witness ==
  /\ last.op = "approve_outline" /\ last.outcome = "ok" /\ ~last.approved
  /\ HasContext
  /\ Persisted.outline = StoryOutline([i \in 1..MaxChapters |-> BookB(i)])
  /\ Persisted.current_chapter = 1
  /\ Persisted.completed_chapters = << Draft(1) >>
  /\ Persisted.character_arcs # EmptyDict
  /\ sessFile.log # <<>>

\* C36: an answer_questions whose outline generation fails has issued that
\* one call and no other, keeps the transient file, creates no context file
\* and touches no session: the project is in the state it was in, from which
\* answer_questions could run.
C36_FailedOutlineRetryable ==
  [][ ( last'.op = "answer_questions"
        /\ last'.outcome = "generation failed" )
      => /\ last'.calls = << "outline" >>
         /\ tempFile = "ok" /\ tempFile' = tempFile
         /\ ctxFile.status = "absent" /\ ctxFile' = ctxFile
         /\ sessFile' = sessFile ]_vars

\* the outline call failed on a started project
C36_Witness ==
  /\ last.op = "answer_questions" /\ last.outcome = "generation failed"
  /\ tempFile = "ok"
  /\ ctxFile.status = "absent"

\* C37: export_manuscript on a project with a persisted context succeeds and
\* leaves the context file and the session file as they were.
C37_ExportSucceeds ==
  [][ ( last'.op = "export_manuscript" /\ HasContext )
      => /\ last'.outcome = "ok"
         /\ ctxFile' = ctxFile
         /\ sessFile' = sessFile ]_vars

\* C38: run_story_critique (check_continuity with critique_full_story or
\* critique_chapter) and the critique inside write_next_chapter leave the
\* context file as it was, run_story_critique leaves the session file as it
\* was, and no session record ever carries critique notes.
C38_CritiqueIsTransient ==
  [][ /\ last'.op = "run_story_critique"
         => ctxFile' = ctxFile /\ sessFile' = sessFile
      /\ ( /\ last'.op = "write_next_chapter"
           /\ \E i \in DOMAIN last'.calls : last'.calls[i] = "critique" )
         => ctxFile' = ctxFile
      /\ last'.op \in { "run_story_critique", "write_next_chapter" }
         => \A i \in DOMAIN sessFile'.log :
              sessFile'.log[i].critique_notes = JsonNull ]_vars

\* a chapter critique with a continuity check ran on a project with a logged
\* session
C38_Witness ==
  /\ last.op = "run_story_critique" /\ last.outcome = "ok"
  /\ last.calls = << "continuity", "critique" >>
  /\ sessFile.log # <<>>
  /\ \A i \in DOMAIN sessFile.log : sessFile.log[i].critique_notes = JsonNull

====
